---- MODULE Spec2Model ----
(***************************************************************************)
(* A model of the grid path search of immacool/pathfinding (src/algo.rs):  *)
(* get_neighbors, reconstruct_path, the two heuristics and the astar loop, *)
(* one step per iteration of the loop, and of the Grid container of the    *)
(* front end (src/grid.rs), one step per method call.  Positions are       *)
(* (row, col) pairs counted from 0 as in the source; a Vec is a sequence,  *)
(* so element i of a Vec v is v[i + 1].                                    *)
(***************************************************************************)
EXTENDS Integers, Sequences, FiniteSets, TLC

\* Bounds of the model: grids of 1..Rows by 1..Cols cells with at most
\* MaxSolid solid cells.
Rows == 3
Cols == 3
MaxSolid == 1
\* A grid of Spec has at most MaxCells cells.
MaxCells == 9
\* The grids of SpecWide are WideSide by WideSide.
WideSide == 4
\* Stand-alone calls of get_neighbors: grids with at most NearSolid solid cells.
NearSolid == 4
\* Stand-alone calls of reconstruct_path: parent maps over ChainNodes positions.
ChainNodes == 4
\* A Grid has at most GridDim rows of at most GridDim cells; the row and col
\* arguments of its methods range over 0 .. GridDim.
GridDim == 2

VARIABLES
    grid,           \* astar's grid: &Vec<Vec<i32>>
    start,          \* astar's start
    end,            \* astar's end
    heuristic,      \* the heuristic passed to astar, by name
    closed_set,     \* HashSet of finalized positions
    open_set,       \* HashSet of discovered positions
    came_from,      \* HashMap position -> parent position
    g_score,        \* HashMap position -> cost from start
    f_score,        \* HashMap position -> g_score + heuristic
    open_set_heap,  \* BinaryHeap<(i32, (i32, i32))>, as the sequence of its entries
    current,        \* the position last popped (reconstruct_path's argument)
    neighbors,      \* the Vec last returned by get_neighbors
    solid_calls,    \* history: every (row, col) the solidity predicate was called with
    popped,         \* history: the positions popped, in order
    total_path,     \* the Vec last returned by reconstruct_path
    result,         \* the Option<Vec<(i32, i32)>> returned
    pc,             \* "loop", "done", "panic"; "call" before a stand-alone call
    width,          \* Grid.width
    height,         \* Grid.height
    cells,          \* Grid.cells: Vec<Vec<i32>>
    built,          \* history: how the Grid was constructed
    ret             \* the Grid method last called and what it returned

\* the fields of the front end's Grid<i32> (src/grid.rs) and their history
gridVars == <<width, height, cells, built, ret>>

\* the variables of astar and of the helpers of src/algo.rs
algoVars == <<grid, start, end, heuristic, closed_set, open_set, came_from,
              g_score, f_score, open_set_heap, current, neighbors, solid_calls,
              popped, total_path, result>>

vars == <<grid, start, end, heuristic, closed_set, open_set, came_from, g_score,
          f_score, open_set_heap, current, neighbors, solid_calls, popped,
          total_path, result, pc, width, height, cells, built, ret>>

----------------------------------------------------------------------------
\* Vec and HashMap helpers.

\* HashMap::insert(k, v)
Insert(m, k, v) == [x \in DOMAIN m \cup {k} |-> IF x = k THEN v ELSE m[x]]

EmptyMap == [x \in {} |-> 0]

RECURSIVE Reverse(_)
\* Vec::reverse
Reverse(s) == IF s = <<>> THEN <<>> ELSE Append(Reverse(Tail(s)), Head(s))

Abs(x) == IF x < 0 THEN -x ELSE x

Max(a, b) == IF a >= b THEN a ELSE b

None == [some |-> FALSE]

Some(p) == [some |-> TRUE, path |-> p]

----------------------------------------------------------------------------
\* The heuristics.

manhattan_distance(a, b) == Abs(a[1] - b[1]) + Abs(a[2] - b[2])

diagonal_distance(a, b) == Max(Abs(a[1] - b[1]), Abs(a[2] - b[2]))

Heuristics == {"manhattan_distance", "diagonal_distance"}

\* heuristic(a, b) for the function value h passed to astar
Heuristic(h, a, b) ==
    IF h = "manhattan_distance" THEN manhattan_distance(a, b)
    ELSE diagonal_distance(a, b)

----------------------------------------------------------------------------
\* reconstruct_path.

RECURSIVE MutWalkBackDropRoot(_, _, _)
\* as WalkBack, stopping before the position without an entry
MutWalkBackDropRoot(cf, cur, path) ==
    IF cur \in DOMAIN cf /\ cf[cur] \in DOMAIN cf
    THEN MutWalkBackDropRoot(cf, cf[cur], Append(path, cf[cur]))
    ELSE path

RECURSIVE WalkBack(_, _, _)
\* the while loop: follow came_from from cur, pushing every parent
WalkBack(cf, cur, path) ==
    IF cur \in DOMAIN cf
    THEN WalkBack(cf, cf[cur], Append(path, cf[cur]))
    ELSE path

\* as reconstruct_path, without the final reverse
MutReconstructNoReverse(cf, cur) == WalkBack(cf, cur, <<cur>>)

reconstruct_path(cf, cur) == Reverse(WalkBack(cf, cur, <<cur>>))

----------------------------------------------------------------------------
\* get_neighbors.

GridLen(g) == Len(g)

RowLen(g) == Len(g[1])

\* grid[row][col] does not panic
IndexOk(g, row, col) ==
    /\ row >= 0 /\ row < Len(g)
    /\ col >= 0 /\ col < Len(g[row + 1])

\* the solidity predicate the callers pass: |row, col, grid| grid[row][col] == 1
is_solid(row, col, g) == g[row + 1][col + 1] = 1

\* as Probe, with the `&& !is_solid(..)` of the condition left out
MutProbeNoSolidCheck(acc, g, inBounds, r, c, pos) ==
    IF acc.panicked \/ ~inBounds THEN acc
    ELSE [acc EXCEPT !.neighbors = Append(@, pos)]

\* One `if` of get_neighbors: when the bounds condition holds, the predicate is
\* called with (r, c) (and panics when grid[r][c] is out of range); the
\* position is pushed when the predicate answers false.
Probe(acc, g, inBounds, r, c, pos) ==
    IF acc.panicked \/ ~inBounds THEN acc
    ELSE IF ~IndexOk(g, r, c)
    THEN [acc EXCEPT !.calls = Append(@, <<r, c>>), !.panicked = TRUE]
    ELSE IF is_solid(r, c, g)
    THEN [acc EXCEPT !.calls = Append(@, <<r, c>>)]
    ELSE [acc EXCEPT !.calls = Append(@, <<r, c>>),
                     !.neighbors = Append(@, pos)]

\* as UpOk, with >= for >
MutUpOk(row, col, g) == row >= 0

UpOk(row, col, g) == row > 0

LeftOk(row, col, g) == col > 0

\* as DownOk, off by one
MutDownOk(row, col, g) == row < GridLen(g) - 2

DownOk(row, col, g) == row < GridLen(g) - 1

\* as RightOk, off by one
MutRightOk(row, col, g) == col < RowLen(g) - 2

RightOk(row, col, g) == col < RowLen(g) - 1

\* The coordinates enumerated are never negative, so `row as usize` and
\* `col as usize` keep their value.
get_neighbors(row, col, g) ==
    LET a0 == [neighbors |-> <<>>, calls |-> <<>>, panicked |-> FALSE]
        a1 == Probe(a0, g, UpOk(row, col, g), row - 1, col, <<row - 1, col>>)
        a2 == Probe(a1, g, LeftOk(row, col, g), row, col - 1, <<row, col - 1>>)
        a3 == Probe(a2, g, DownOk(row, col, g), row + 1, col, <<row + 1, col>>)
        a4 == Probe(a3, g, RightOk(row, col, g), row, col + 1, <<row, col + 1>>)
    IN  a4

----------------------------------------------------------------------------
\* The priority structure.

\* as EntryLess, comparing the keys alone
MutEntryLessKeyOnly(a, b) == a[1] < b[1]

\* Ord on (i32, (i32, i32)): lexicographic
EntryLess(a, b) ==
    \/ a[1] < b[1]
    \/ a[1] = b[1] /\ a[2][1] < b[2][1]
    \/ a[1] = b[1] /\ a[2][1] = b[2][1] /\ a[2][2] < b[2][2]

\* BinaryHeap::pop returns a greatest entry: one no entry is greater than.
\* The heap is the sequence of its entries in the order they were pushed; the
\* arrangement BinaryHeap keeps them in is not modelled.
Greatest(heap) ==
    {i \in 1 .. Len(heap) : \A j \in 1 .. Len(heap) : ~EntryLess(heap[i], heap[j])}

HeapPush(heap, e) == Append(heap, e)

\* as HeapRemove, leaving the entry in the heap (peek in place of pop)
MutHeapRemoveKeeps(heap, i) == heap

HeapRemove(heap, i) == SubSeq(heap, 1, i - 1) \o SubSeq(heap, i + 1, Len(heap))

----------------------------------------------------------------------------
\* as VisitOpenNeighbor, where a neighbor new to open_set is pushed and its
\* came_from, g_score and f_score entries are not written
MutVisitOpenNoRecord(st, neighbor, cur, e, h) ==
    IF cur \notin DOMAIN st.g_score
    THEN [st EXCEPT !.panicked = TRUE]
    ELSE
    LET tentative_g_score == st.g_score[cur] + 1
        record(s) ==
            [s EXCEPT !.came_from = Insert(@, neighbor, cur),
                      !.g_score = Insert(@, neighbor, tentative_g_score),
                      !.f_score = Insert(@, neighbor,
                                         tentative_g_score + Heuristic(h, neighbor, e))]
    IN  IF neighbor \notin st.open_set
        THEN [st EXCEPT
                 !.open_set = @ \cup {neighbor},
                 !.heap = HeapPush(@, <<Heuristic(h, neighbor, e), neighbor>>)]
        ELSE IF neighbor \notin DOMAIN st.g_score
        THEN [st EXCEPT !.panicked = TRUE]
        ELSE IF tentative_g_score >= st.g_score[neighbor]
        THEN st
        ELSE record(st)

\* as VisitOpenNeighbor, where a neighbor already in open_set is left as it is
MutVisitOpenNoImprove(st, neighbor, cur, e, h) ==
    IF cur \notin DOMAIN st.g_score
    THEN [st EXCEPT !.panicked = TRUE]
    ELSE
    LET tentative_g_score == st.g_score[cur] + 1
        record(s) ==
            [s EXCEPT !.came_from = Insert(@, neighbor, cur),
                      !.g_score = Insert(@, neighbor, tentative_g_score),
                      !.f_score = Insert(@, neighbor,
                                         tentative_g_score + Heuristic(h, neighbor, e))]
    IN  IF neighbor \notin st.open_set
        THEN record([st EXCEPT
                 !.open_set = @ \cup {neighbor},
                 !.heap = HeapPush(@, <<Heuristic(h, neighbor, e), neighbor>>)])
        ELSE IF neighbor \notin DOMAIN st.g_score
        THEN [st EXCEPT !.panicked = TRUE]
        ELSE st

\* as VisitOpenNeighbor, where a better route to a neighbor in open_set updates
\* g_score and f_score and keeps the old came_from entry
MutVisitOpenKeepParent(st, neighbor, cur, e, h) ==
    IF cur \notin DOMAIN st.g_score
    THEN [st EXCEPT !.panicked = TRUE]
    ELSE
    LET tentative_g_score == st.g_score[cur] + 1
        record(s) ==
            [s EXCEPT !.came_from = Insert(@, neighbor, cur),
                      !.g_score = Insert(@, neighbor, tentative_g_score),
                      !.f_score = Insert(@, neighbor,
                                         tentative_g_score + Heuristic(h, neighbor, e))]
    IN  IF neighbor \notin st.open_set
        THEN record([st EXCEPT
                 !.open_set = @ \cup {neighbor},
                 !.heap = HeapPush(@, <<Heuristic(h, neighbor, e), neighbor>>)])
        ELSE IF neighbor \notin DOMAIN st.g_score
        THEN [st EXCEPT !.panicked = TRUE]
        ELSE IF tentative_g_score >= st.g_score[neighbor]
        THEN st
        ELSE [st EXCEPT !.g_score = Insert(@, neighbor, tentative_g_score),
                        !.f_score = Insert(@, neighbor,
                                           tentative_g_score + Heuristic(h, neighbor, e))]

\* One neighbor of the for loop of astar (lines 178-193).  st holds the
\* locals the loop body changes.
VisitOpenNeighbor(st, neighbor, cur, e, h) ==
    IF cur \notin DOMAIN st.g_score
    THEN [st EXCEPT !.panicked = TRUE]
    ELSE
    LET tentative_g_score == st.g_score[cur] + 1
        record(s) ==
            [s EXCEPT !.came_from = Insert(@, neighbor, cur),
                      !.g_score = Insert(@, neighbor, tentative_g_score),
                      !.f_score = Insert(@, neighbor,
                                         tentative_g_score + Heuristic(h, neighbor, e))]
    IN  IF neighbor \notin st.open_set
        THEN record([st EXCEPT
                 !.open_set = @ \cup {neighbor},
                 !.heap = HeapPush(@, <<Heuristic(h, neighbor, e), neighbor>>)])
        ELSE IF neighbor \notin DOMAIN st.g_score
        THEN [st EXCEPT !.panicked = TRUE]
        ELSE IF tentative_g_score >= st.g_score[neighbor]
        THEN st
        ELSE record(st)

\* as VisitNeighbor, without the `closed_set.contains(&neighbor)` test
MutVisitNoClosedCheck(st, neighbor, cur, e, h, closed) ==
    IF st.panicked THEN st
    ELSE VisitOpenNeighbor(st, neighbor, cur, e, h)

VisitNeighbor(st, neighbor, cur, e, h, closed) ==
    IF st.panicked \/ neighbor \in closed THEN st
    ELSE VisitOpenNeighbor(st, neighbor, cur, e, h)

RECURSIVE VisitAll(_, _, _, _, _, _)
\* the for loop over the Vec of neighbors, in order
VisitAll(st, ns, cur, e, h, closed) ==
    IF ns = <<>> THEN st
    ELSE VisitAll(VisitNeighbor(st, Head(ns), cur, e, h, closed),
                  Tail(ns), cur, e, h, closed)

----------------------------------------------------------------------------
\* Grid<i32> (src/grid.rs), the container of the front end.  self is the
\* record of its three fields; a method yields the new self, the value it
\* returns and whether indexing cells panicked.

\* Option<&i32> / Option<i32> holding a cell value
SomeCell(v) == [some |-> TRUE, value |-> v]

\* as new, with width and height exchanged in the vec! expression
MutNewSwapped(w, h) ==
    [width |-> w, height |-> h, cells |-> [i \in 1 .. w |-> [j \in 1 .. h |-> 0]]]

\* Grid::new: vec![vec![T::default(); width]; height]
new(w, h) ==
    [width |-> w, height |-> h, cells |-> [i \in 1 .. h |-> [j \in 1 .. w |-> 0]]]

\* Grid::from_vec: the dimensions are read off the first row and the row
\* count, the rows are stored as given
from_vec(rows) ==
    [width |-> Len(rows[1]), height |-> Len(rows), cells |-> rows]

\* Grid::get
get(self, row, col) ==
    IF row < self.height /\ col < self.width
    THEN IF IndexOk(self.cells, row, col)
         THEN [self |-> self, ret |-> SomeCell(self.cells[row + 1][col + 1]),
               panicked |-> FALSE]
         ELSE [self |-> self, ret |-> None, panicked |-> TRUE]
    ELSE [self |-> self, ret |-> None, panicked |-> FALSE]

\* Grid::get_mut followed by the caller's write of value through the
\* reference it returns
get_mut(self, row, col, value) ==
    IF row < self.height /\ col < self.width
    THEN IF IndexOk(self.cells, row, col)
         THEN [self |-> [self EXCEPT !.cells[row + 1][col + 1] = value],
               ret |-> SomeCell(self.cells[row + 1][col + 1]),
               panicked |-> FALSE]
         ELSE [self |-> self, ret |-> None, panicked |-> TRUE]
    ELSE [self |-> self, ret |-> None, panicked |-> FALSE]

\* as set, with `col < self.width` left out of the bounds test
MutSetNoColCheck(self, row, col, value) ==
    IF row < self.height
    THEN IF IndexOk(self.cells, row, col)
         THEN [self |-> [self EXCEPT !.cells[row + 1][col + 1] = value],
               ret |-> SomeCell(self.cells[row + 1][col + 1]),
               panicked |-> FALSE]
         ELSE [self |-> self, ret |-> None, panicked |-> TRUE]
    ELSE [self |-> self, ret |-> None, panicked |-> FALSE]

\* Grid::set: std::mem::replace returns the old value
set(self, row, col, value) ==
    IF row < self.height /\ col < self.width
    THEN IF IndexOk(self.cells, row, col)
         THEN [self |-> [self EXCEPT !.cells[row + 1][col + 1] = value],
               ret |-> SomeCell(self.cells[row + 1][col + 1]),
               panicked |-> FALSE]
         ELSE [self |-> self, ret |-> None, panicked |-> TRUE]
    ELSE [self |-> self, ret |-> None, panicked |-> FALSE]

RECURSIVE FillFrom(_, _, _, _, _)
\* the two loops of fill from the k-th assignment on, row by row
FillFrom(c, value, k, h, w) ==
    IF k = h * w THEN [cells |-> c, panicked |-> FALSE]
    ELSE IF ~IndexOk(c, k \div w, k % w) THEN [cells |-> c, panicked |-> TRUE]
    ELSE FillFrom([c EXCEPT ![(k \div w) + 1][(k % w) + 1] = value],
                  value, k + 1, h, w)

\* Grid::fill
fill(self, value) ==
    LET f == FillFrom(self.cells, value, 0, self.height, self.width)
    IN [self |-> [self EXCEPT !.cells = f.cells], ret |-> None,
        panicked |-> f.panicked]

\* Grid::to_vec: a clone of cells
to_vec(self) == self.cells

\* every row of rows is as long as the first
Rectangular(rows) == \A i \in DOMAIN rows : Len(rows[i]) = Len(rows[1])

\* The state once a constructor has returned self; built keeps the
\* dimensions it set and whether the rows it stored are rectangular.
GridIs(self, op) ==
    /\ width = self.width
    /\ height = self.height
    /\ cells = self.cells
    /\ built = [op |-> op, width |-> self.width, height |-> self.height,
                rectangular |-> Rectangular(self.cells)]
    /\ ret = [op |-> op, value |-> None]

\* astar and the helpers of src/algo.rs take a Vec and no Grid: in their
\* specifications the Grid is an empty one that nothing touches
NoGrid == GridIs(new(0, 0), "new")

----------------------------------------------------------------------------
\* Inputs.

Cells(r, c) == (0 .. r - 1) \X (0 .. c - 1)

\* the r by c grid whose solid cells (value 1) are those of S
MakeGrid(r, c, S) ==
    [i \in 1 .. r |-> [j \in 1 .. c |-> IF <<i - 1, j - 1>> \in S THEN 1 ELSE 0]]

Grids(r, c, k) ==
    {MakeGrid(r, c, S) : S \in {T \in SUBSET Cells(r, c) : Cardinality(T) <= k}}

InBounds(p, g) == IndexOk(g, p[1], p[2])

\* The state of astar when it reaches its loop (lines 154-167).
AstarEntry(g, s, e, h) ==
    /\ grid = g
    /\ start = s
    /\ end = e
    /\ heuristic = h
    /\ closed_set = {}
    /\ open_set = {s}
    /\ came_from = EmptyMap
    /\ g_score = Insert(EmptyMap, s, 0)
    /\ f_score = Insert(EmptyMap, s, Heuristic(h, s, e))
    /\ open_set_heap = <<<<Heuristic(h, s, e), s>>>>
    /\ current = s
    /\ neighbors = <<>>
    /\ solid_calls = <<>>
    /\ popped = <<>>
    /\ total_path = <<>>
    /\ result = None
    /\ pc = "loop"
    /\ NoGrid

\* astar called on a grid with in-bounds start and end
Init ==
    \E r \in 1 .. Rows, c \in 1 .. Cols :
        /\ r * c <= MaxCells
        /\ \E g \in Grids(r, c, MaxSolid), s \in Cells(r, c), e \in Cells(r, c),
              h \in Heuristics :
               AstarEntry(g, s, e, h)

----------------------------------------------------------------------------
\* The loop of astar.

\* lines 169-173: the popped position is end
ReturnPath ==
    /\ pc = "loop"
    /\ open_set_heap # <<>>
    /\ \E i \in Greatest(open_set_heap) :
        LET cur == open_set_heap[i][2]
        IN  /\ cur = end
            /\ open_set_heap' = HeapRemove(open_set_heap, i)
            /\ current' = cur
            /\ popped' = Append(popped, cur)
            /\ total_path' = reconstruct_path(came_from, cur)
            /\ result' = Some(total_path')
    /\ pc' = "done"
    /\ UNCHANGED gridVars
    /\ UNCHANGED <<grid, start, end, heuristic, closed_set, open_set, came_from,
                   g_score, f_score, neighbors, solid_calls>>

\* lines 169-194: the popped position is not end; it is closed and its
\* neighbors are visited
Expand ==
    /\ pc = "loop"
    /\ open_set_heap # <<>>
    /\ \E i \in Greatest(open_set_heap) :
        LET cur == open_set_heap[i][2]
            closed == closed_set \cup {cur}
        IN
        /\ cur # end
        /\ \E gn \in {get_neighbors(cur[1], cur[2], grid)} :
           \E st \in {VisitAll([open_set |-> open_set \ {cur},
                                came_from |-> came_from,
                                g_score |-> g_score,
                                f_score |-> f_score,
                                heap |-> HeapRemove(open_set_heap, i),
                                panicked |-> gn.panicked],
                               gn.neighbors, cur, end, heuristic, closed)} :
            /\ current' = cur
            /\ popped' = Append(popped, cur)
            /\ closed_set' = closed
            /\ neighbors' = gn.neighbors
            /\ solid_calls' = solid_calls \o gn.calls
            /\ open_set' = st.open_set
            /\ came_from' = st.came_from
            /\ g_score' = st.g_score
            /\ f_score' = st.f_score
            /\ open_set_heap' = st.heap
            /\ pc' = IF st.panicked THEN "panic" ELSE "loop"
    /\ UNCHANGED gridVars
    /\ UNCHANGED <<grid, start, end, heuristic, total_path, result>>

\* lines 169, 196: the heap is empty
ReturnNone ==
    /\ pc = "loop"
    /\ open_set_heap = <<>>
    /\ result' = None
    /\ pc' = "done"
    /\ UNCHANGED gridVars
    /\ UNCHANGED <<grid, start, end, heuristic, closed_set, open_set, came_from,
                   g_score, f_score, open_set_heap, current, neighbors,
                   solid_calls, popped, total_path>>

Next == ReturnPath \/ Expand \/ ReturnNone

Spec == Init /\ [][Next]_vars

\* The loop runs on until it returns: it is synchronous code, never suspended.
FairSpec == Init /\ [][Next]_vars /\ WF_vars(Next)

\* astar on the WideSide by WideSide grids, the obstacle-free one among them
InitWide ==
    \E g \in Grids(WideSide, WideSide, MaxSolid), s \in Cells(WideSide, WideSide),
       e \in Cells(WideSide, WideSide), h \in Heuristics :
        AstarEntry(g, s, e, h)

SpecWide == InitWide /\ [][Next]_vars

\* astar with a start that may lie one row or one column past the grid (the
\* front end's start fields accept any integer)
InitAnyStart ==
    \E r \in 1 .. Rows, c \in 1 .. Cols :
        \E g \in Grids(r, c, MaxSolid), s \in Cells(r + 1, c + 1), e \in Cells(r, c),
           h \in Heuristics :
            AstarEntry(g, s, e, h)

SpecAnyStart == InitAnyStart /\ [][Next]_vars

\* The grid of astar's example (lines 126-132) is ScenarioSide by ScenarioSide.
ScenarioSide == 5

\* its border cells, all solid
Border ==
    {p \in Cells(ScenarioSide, ScenarioSide) :
        p[1] \in {0, ScenarioSide - 1} \/ p[2] \in {0, ScenarioSide - 1}}

Interior == Cells(ScenarioSide, ScenarioSide) \ Border

\* the two solid cells inside the border (lines 128 and 129)
ExampleWalls == {<<1, 2>>, <<2, 2>>}

\* the grid of the example
ExampleGrid == MakeGrid(ScenarioSide, ScenarioSide, Border \cup ExampleWalls)

\* the same grid with a free interior
OpenInteriorGrid == MakeGrid(ScenarioSide, ScenarioSide, Border)

\* the path the example expects (line 144)
ExamplePath == <<<<1, 1>>, <<2, 1>>, <<3, 1>>, <<3, 2>>, <<3, 3>>, <<2, 3>>, <<1, 3>>>>

\* astar on the bordered grid with any of the example's walls, between any two
\* interior cells
InitScenario ==
    \E W \in SUBSET ExampleWalls, s \in Interior, e \in Interior, h \in Heuristics :
        AstarEntry(MakeGrid(ScenarioSide, ScenarioSide, Border \cup W), s, e, h)

SpecScenario == InitScenario /\ [][Next]_vars

----------------------------------------------------------------------------
\* Stand-alone calls of the two public helpers.  Before the call pc = "call";
\* the variables the call does not use hold the values astar starts with.

Idle ==
    /\ start = <<0, 0>>
    /\ end = <<0, 0>>
    /\ heuristic = "manhattan_distance"
    /\ closed_set = {}
    /\ open_set = {}
    /\ g_score = EmptyMap
    /\ f_score = EmptyMap
    /\ open_set_heap = <<>>
    /\ solid_calls = <<>>
    /\ popped = <<>>
    /\ total_path = <<>>
    /\ neighbors = <<>>
    /\ result = None
    /\ pc = "call"

\* get_neighbors(current.0, current.1, grid, is_solid) for an in-bounds position
InitNeighbors ==
    \E r \in 1 .. Rows, c \in 1 .. Cols :
        \E g \in Grids(r, c, NearSolid), p \in Cells(r, c) :
            /\ grid = g
            /\ current = p
            /\ came_from = EmptyMap
            /\ Idle
            /\ NoGrid

GetNeighborsCall ==
    /\ pc = "call"
    /\ \E gn \in {get_neighbors(current[1], current[2], grid)} :
        /\ neighbors' = gn.neighbors
        /\ solid_calls' = solid_calls \o gn.calls
        /\ pc' = IF gn.panicked THEN "panic" ELSE "done"
    /\ UNCHANGED gridVars
    /\ UNCHANGED <<grid, start, end, heuristic, closed_set, open_set, came_from,
                   g_score, f_score, open_set_heap, current, popped, total_path,
                   result>>

SpecNeighbors == InitNeighbors /\ [][GetNeighborsCall]_vars

ChainPositions == {<<i \div 2, i % 2>> : i \in 0 .. ChainNodes - 1}

ParentMaps == UNION {[D -> ChainPositions] : D \in SUBSET ChainPositions}

RECURSIVE ChainFinite(_, _, _)
\* following cf from cur ends at a position without an entry within fuel links
ChainFinite(cf, cur, fuel) ==
    IF cur \notin DOMAIN cf THEN TRUE
    ELSE IF fuel = 0 THEN FALSE
    ELSE ChainFinite(cf, cf[cur], fuel - 1)

\* reconstruct_path(&came_from, current) for a map whose chain from current ends
InitReconstruct ==
    \E cf \in ParentMaps, cur \in ChainPositions :
        /\ ChainFinite(cf, cur, ChainNodes)
        /\ grid = <<<<0>>>>
        /\ current = cur
        /\ came_from = cf
        /\ Idle
        /\ NoGrid

ReconstructPathCall ==
    /\ pc = "call"
    /\ total_path' = reconstruct_path(came_from, current)
    /\ pc' = "done"
    /\ UNCHANGED gridVars
    /\ UNCHANGED <<grid, start, end, heuristic, closed_set, open_set, came_from,
                   g_score, f_score, open_set_heap, current, neighbors,
                   solid_calls, popped, result>>

SpecReconstruct == InitReconstruct /\ [][ReconstructPathCall]_vars

----------------------------------------------------------------------------
\* Calls of the Grid's methods.  pc = "call" while the Grid is ready for the
\* next call and "panic" once indexing cells has panicked.

GridValues == {0, 1}

GridIndex == 0 .. GridDim

\* a Vec of at most GridDim cells
GridRows == UNION {[1 .. l -> GridValues] : l \in 0 .. GridDim}

\* the non-empty Vecs of at most GridDim rows (from_vec(vec![]) panics at
\* cells[0] and builds no Grid)
AnyRows == UNION {[1 .. k -> GridRows] : k \in 1 .. GridDim}

\* the variables of src/algo.rs while only the Grid is used
AlgoIdle ==
    /\ grid = <<<<0>>>>
    /\ current = <<0, 0>>
    /\ came_from = EmptyMap
    /\ Idle

\* a Grid built by new, or by from_vec from rectangular rows as the front
\* end does (main.rs line 40)
InitGrid ==
    /\ \/ \E w \in GridIndex, h \in GridIndex : GridIs(new(w, h), "new")
       \/ \E rows \in {r \in AnyRows : Rectangular(r)} :
              GridIs(from_vec(rows), "from_vec")
    /\ AlgoIdle

\* a Grid built by new, or by from_vec from any non-empty rows
InitGridAnyRows ==
    /\ \/ \E w \in GridIndex, h \in GridIndex : GridIs(new(w, h), "new")
       \/ \E rows \in AnyRows : GridIs(from_vec(rows), "from_vec")
    /\ AlgoIdle

\* the effect of a method call with outcome out
Called(op, out) ==
    /\ width' = out.self.width
    /\ height' = out.self.height
    /\ cells' = out.self.cells
    /\ ret' = [op |-> op, value |-> out.ret]
    /\ pc' = IF out.panicked THEN "panic" ELSE "call"
    /\ UNCHANGED built
    /\ UNCHANGED algoVars

Self == [width |-> width, height |-> height, cells |-> cells]

Get(row, col) ==
    /\ pc = "call"
    /\ \E out \in {get(Self, row, col)} : Called("get", out)

GetMutWrite(row, col, value) ==
    /\ pc = "call"
    /\ \E out \in {get_mut(Self, row, col, value)} : Called("get_mut", out)

Set(row, col, value) ==
    /\ pc = "call"
    /\ \E out \in {set(Self, row, col, value)} : Called("set", out)

Fill(value) ==
    /\ pc = "call"
    /\ \E out \in {fill(Self, value)} : Called("fill", out)

ToVec ==
    /\ pc = "call"
    /\ ret' = [op |-> "to_vec", value |-> [vec |-> to_vec(Self)]]
    /\ UNCHANGED <<width, height, cells, built, pc>>
    /\ UNCHANGED algoVars

NextGrid ==
    \/ \E row \in GridIndex, col \in GridIndex : Get(row, col)
    \/ \E row \in GridIndex, col \in GridIndex, value \in GridValues :
          GetMutWrite(row, col, value)
    \/ \E row \in GridIndex, col \in GridIndex, value \in GridValues :
          Set(row, col, value)
    \/ \E value \in GridValues : Fill(value)
    \/ ToVec

SpecGrid == InitGrid /\ [][NextGrid]_vars

SpecGridAnyRows == InitGridAnyRows /\ [][NextGrid]_vars

----------------------------------------------------------------------------
\* What the claims speak of, stated without the search.

Value(g, p) == g[p[1] + 1][p[2] + 1]

\* p is a cell of g that is not solid
Passable(g, p) == InBounds(p, g) /\ Value(g, p) # 1

UnitSteps == {<<-1, 0>>, <<0, -1>>, <<1, 0>>, <<0, 1>>}

Adjacent(p) == {<<p[1] + d[1], p[2] + d[2]>> : d \in UnitSteps}

\* the cells one orthogonal move into a non-solid cell away from a cell of F
MovesFrom(g, F) == {q \in UNION {Adjacent(p) : p \in F} : Passable(g, q)}

RECURSIVE Layers(_, _, _, _, _)
\* breadth-first layers from the frontier: the number of moves to e, -1 if none
Layers(g, seen, frontier, e, d) ==
    IF e \in frontier THEN d
    ELSE IF frontier = {} THEN -1
    ELSE LET nxt == MovesFrom(g, frontier) \ seen
         IN  Layers(g, seen \cup nxt, nxt, e, d + 1)

\* the least number of orthogonal moves from s to e through non-solid cells
MinMoves(g, s, e) == Layers(g, {s}, {s}, e, 0)

IsReachable(g, s, e) == MinMoves(g, s, e) >= 0

NoSolid(g) == \A i \in 1 .. Len(g) : \A j \in 1 .. Len(g[i]) : g[i][j] # 1

Returned == pc = "done"

----------------------------------------------------------------------------
\* C1.  Shortest path: whenever astar returns a path for a non-solid start
\* and end, its number of moves is the least number of orthogonal moves from
\* start to end through non-solid cells.
C1_ShortestPath ==
    (Returned /\ result.some /\ Passable(grid, start) /\ Passable(grid, end))
        => Len(result.path) - 1 = MinMoves(grid, start, end)

\* C2.  A returned path is non-empty, begins with start, ends with end, and
\* every consecutive pair differs by one of the four unit directions; when
\* start = end the path is exactly <<start>>.
C2_PathWellFormed ==
    (Returned /\ result.some) =>
        LET p == result.path
        IN  /\ Len(p) >= 1
            /\ p[1] = start
            /\ p[Len(p)] = end
            /\ \A i \in 1 .. Len(p) - 1 :
                   <<p[i + 1][1] - p[i][1], p[i + 1][2] - p[i][2]>> \in UnitSteps
            /\ (start = end => p = <<start>>)

\* a path of several moves around a solid cell has been returned
C2_Witness ==
    /\ Returned /\ result.some
    /\ Len(result.path) >= 4
    /\ ~NoSolid(grid)

\* C3.  On a grid without solid cells, for start # end, astar returns a
\* path of |start.row - end.row| + |start.col - end.col| + 1 positions.
C3_ObstacleFreeLength ==
    (Returned /\ NoSolid(grid) /\ start # end) =>
        /\ result.some
        /\ Len(result.path) = Abs(start[1] - end[1]) + Abs(start[2] - end[2]) + 1

\* C4.  astar returns None only when no sequence of orthogonal moves through
\* non-solid cells leads from start to end.
C4_AbsentMeansUnreachable ==
    (Returned /\ ~result.some) => ~IsReachable(grid, start, end)

\* None has been returned for a non-solid start and a non-solid end cut off
\* from it
C4_Witness ==
    /\ Returned /\ ~result.some
    /\ Passable(grid, start) /\ Passable(grid, end)
    /\ Len(popped) >= 1

\* every in-bounds orthogonal neighbour of e is solid
Enclosed(g, e) == \A q \in Adjacent(e) : InBounds(q, g) => Value(g, q) = 1

\* C5 as stated.  If every in-bounds orthogonal neighbour of end is solid,
\* astar returns None, for every in-bounds start.
C5_EnclosedEndAbsent ==
    (Returned /\ Enclosed(grid, end)) => ~result.some

\* C5 as amended.  If every in-bounds orthogonal neighbour of end is solid,
\* astar returns None unless start is end itself or one of those (solid)
\* neighbours of end.
C5_EnclosedEndAbsentUnlessStart ==
    (Returned /\ Enclosed(grid, end) /\ start # end /\ start \notin Adjacent(end))
        => ~result.some

\* None has been returned for a non-solid end behind a solid neighbour
C5_Witness ==
    /\ Returned /\ ~result.some
    /\ Enclosed(grid, end) /\ start # end /\ start \notin Adjacent(end)
    /\ Passable(grid, start) /\ Passable(grid, end)
    /\ \E q \in Adjacent(end) : InBounds(q, grid)

RECURSIVE Links(_, _)
\* the number of came_from links from cur to the position without an entry
Links(cf, cur) == IF cur \in DOMAIN cf THEN 1 + Links(cf, cf[cur]) ELSE 0

C6_Chain ==
    pc = "done" =>
        LET p == total_path
        IN  /\ Len(p) = Links(came_from, current) + 1
            /\ p[Len(p)] = current
            /\ p[1] \notin DOMAIN came_from
            /\ \A i \in 1 .. Len(p) - 1 :
                   p[i + 1] \in DOMAIN came_from /\ came_from[p[i + 1]] = p[i]

\* C6.  For a came_from map whose chain from current is finite,
\* reconstruct_path returns the chain from its root to current: the last
\* element is current, the first is the one chain position without an entry,
\* each element is the came_from of the next, the length is the number of
\* links plus one; and the call leaves came_from as it was.
C6_ReconstructPath == []C6_Chain /\ [][came_from' = came_from]_vars

\* a chain of at least two links has been reconstructed
C6_Witness == pc = "done" /\ Len(total_path) >= 3

NoRepeat(q) == \A i \in 1 .. Len(q) : \A j \in 1 .. Len(q) : q[i] = q[j] => i = j

\* C7.  For an in-bounds (row, col), get_neighbors returns exactly those of
\* (row-1,col), (row,col-1), (row+1,col), (row,col+1), in this order, that are
\* in bounds and not solid: no diagonal position, no duplicate, not (row, col).
C7_NeighborsExact ==
    /\ pc # "panic"
    /\ pc = "done" =>
        LET row == current[1]
            col == current[2]
            Keep(p) == Passable(grid, p)
        IN  /\ neighbors = SelectSeq(<<  <<row - 1, col>>, <<row, col - 1>>,
                                         <<row + 1, col>>, <<row, col + 1>>  >>, Keep)
            /\ NoRepeat(neighbors)
            /\ \A i \in 1 .. Len(neighbors) :
                   <<neighbors[i][1] - row, neighbors[i][2] - col>> \in UnitSteps

\* get_neighbors has answered for a border cell with a solid neighbour and two
\* free ones
C7_Witness ==
    /\ pc = "done"
    /\ Len(neighbors) = 2
    /\ \E q \in Adjacent(current) : ~InBounds(q, grid)
    /\ \E q \in Adjacent(current) : InBounds(q, grid) /\ Value(grid, q) = 1

CallsInBounds ==
    \A i \in 1 .. Len(solid_calls) :
        /\ 0 <= solid_calls[i][1] /\ solid_calls[i][1] < Len(grid)
        /\ 0 <= solid_calls[i][2] /\ solid_calls[i][2] < Len(grid[1])

\* C8 as stated.  Whatever start is passed to astar, every call of the
\* solidity predicate receives a row and a column inside the grid.
C8_SolidCallsInBounds == CallsInBounds

\* C8 as amended.  When start is inside the grid, every call of the solidity
\* predicate made by get_neighbors, for start and for every position astar
\* pops after it, receives a row and a column inside the grid (and none panics).
C8_SolidCallsInBoundsFromInside ==
    InBounds(start, grid) => (CallsInBounds /\ pc # "panic")

\* a search from an in-bounds start has returned after several predicate calls
C8_Witness ==
    /\ InBounds(start, grid)
    /\ Returned
    /\ Len(solid_calls) >= 6

HeapPositions == [i \in 1 .. Len(open_set_heap) |-> open_set_heap[i][2]]

\* C9.  The loop of astar ends, no more than width x height positions are
\* popped, and no position is pushed or popped twice.
C9_Termination ==
    /\ <>(pc = "done")
    /\ [](Len(popped) <= GridLen(grid) * RowLen(grid))
    /\ [](NoRepeat(popped \o HeapPositions))

\* a search has returned after popping every cell of a grid of at least 6 cells
C9_Witness ==
    /\ Returned
    /\ Len(popped) = GridLen(grid) * RowLen(grid)
    /\ Len(popped) >= 6

\* C10.  Every pop of astar has exactly one entry it can return (the greatest
\* under the order on (key, position)), so a run is determined by its inputs:
\* the same positions are popped in the same order, with the same result.
C10_Deterministic ==
    (pc = "loop" /\ open_set_heap # <<>>) => Cardinality(Greatest(open_set_heap)) = 1

\* two entries of the heap tie on the greatest key and the position decides
C10_Witness ==
    /\ pc = "loop"
    /\ \E i \in Greatest(open_set_heap) : \E j \in 1 .. Len(open_set_heap) :
           j # i /\ open_set_heap[j][1] = open_set_heap[i][1]

----------------------------------------------------------------------------
\* astar((1,1), (1,3)) with manhattan_distance has returned on grid g
ScenarioReturned(g) ==
    /\ Returned
    /\ grid = g
    /\ start = <<1, 1>>
    /\ end = <<1, 3>>
    /\ heuristic = "manhattan_distance"

\* C11 as stated.  On the 5x5 grid with a solid border and a free 3x3
\* interior, astar((1,1), (1,3)) with manhattan_distance returns the path
\* (1,1),(2,1),(3,1),(3,2),(3,3),(2,3),(1,3), a shortest route of 6 moves.
C11_OpenInteriorPath ==
    ScenarioReturned(OpenInteriorGrid) =>
        /\ result = Some(ExamplePath)
        /\ MinMoves(grid, start, end) = 6

\* C11, amended.  On the grid with the free interior the call returns
\* (1,1),(1,2),(1,3), a shortest route of 2 moves; the path of 6 moves is
\* what it returns, and a shortest route, on the example's grid, where the
\* interior cells (1,2) and (2,2) are solid too.
C11_ScenarioPaths ==
    /\ ScenarioReturned(OpenInteriorGrid) =>
          /\ result = Some(<<<<1, 1>>, <<1, 2>>, <<1, 3>>>>)
          /\ MinMoves(grid, start, end) = 2
    /\ ScenarioReturned(ExampleGrid) =>
          /\ result = Some(ExamplePath)
          /\ MinMoves(grid, start, end) = 6

C11_Witness == ScenarioReturned(OpenInteriorGrid) /\ result.some

----------------------------------------------------------------------------
\* the call returned None and changed no field of the Grid
AbsentNoChange ==
    /\ ret'.value = None
    /\ pc' = "call"
    /\ UNCHANGED <<width, height, cells>>

\* what a set of `value` at an in-bounds (row, col) does
SetInBounds(row, col, value) ==
    /\ pc' = "call"
    /\ ret'.value = SomeCell(cells[row + 1][col + 1])
    /\ get([width |-> width', height |-> height', cells |-> cells'], row, col).ret
           = SomeCell(value)
    /\ cells' = [cells EXCEPT ![row + 1][col + 1] = value]
    /\ UNCHANGED <<width, height>>

----------------------------------------------------------------------------
\* width and height are those set at construction, every stored row has
\* length width, and get finds a value at every (row, col) within them
ShapeKept ==
    /\ width = built.width
    /\ height = built.height
    /\ \A i \in DOMAIN cells : Len(cells[i]) = width
    /\ \A row \in 0 .. height - 1, col \in 0 .. width - 1 :
          LET out == get(Self, row, col) IN ~out.panicked /\ out.ret.some

\* C13 as stated.  Shape invariant of the Grid: for every Grid built by new
\* or by from_vec(rows), after any sequence of set, get_mut writes and fill,
\* width and height are those of the construction, every stored row has
\* length width and get(row, col) is present for all row < height and
\* col < width.
C13_ShapeInvariant == ShapeKept

\* C13, amended.  The shape invariant holds, and no call panics, for every
\* Grid built by new or by from_vec from rows that all have the length of the
\* first one.
C13_ShapeInvariantRectangular == built.rectangular => (ShapeKept /\ pc # "panic")

\* a Grid built by from_vec from rectangular rows, after a write through
\* get_mut that replaced a 1, while another cell holds a 1
C13_Witness ==
    /\ built.op = "from_vec"
    /\ built.rectangular
    /\ ret.op = "get_mut"
    /\ ret.value = SomeCell(1)
    /\ \E i \in DOMAIN cells : \E j \in DOMAIN cells[i] : cells[i][j] = 1

----------------------------------------------------------------------------
\* C14.  Pop order: at every iteration the position popped from the heap has
\* the lowest f_score (g_score plus heuristic) of all positions in open_set.
C14_PopsLowestF ==
    (pc = "loop" /\ open_set_heap # <<>>) =>
        \A i \in Greatest(open_set_heap) : \A p \in open_set :
            f_score[open_set_heap[i][2]] <= f_score[p]

----------------------------------------------------------------------------
\* the positions of the entries of a heap
PositionsOf(heap) == {heap[i][2] : i \in 1 .. Len(heap)}

\* a step keeps every closed position closed, out of open_set and of the
\* heap, and keeps its g_score, f_score and came_from entries
ClosedKept ==
    \A p \in closed_set :
        /\ p \in closed_set'
        /\ p \notin open_set'
        /\ p \notin PositionsOf(open_set_heap')
        /\ p \in DOMAIN g_score /\ p \in DOMAIN g_score' /\ g_score'[p] = g_score[p]
        /\ p \in DOMAIN f_score /\ p \in DOMAIN f_score' /\ f_score'[p] = f_score[p]
        /\ (p \in DOMAIN came_from) = (p \in DOMAIN came_from')
        /\ p \in DOMAIN came_from => came_from'[p] = came_from[p]

\* C15.  Closed is final: open_set and closed_set are disjoint, and a
\* position in closed_set stays there, is never put back into open_set or the
\* heap, and its g_score, f_score and came_from entries never change.
C15_ClosedIsFinal ==
    /\ [](open_set \cap closed_set = {})
    /\ [][ClosedKept]_vars

\* an iteration has met a neighbor that was closed before it
C15_Witness ==
    /\ pc = "loop"
    /\ Cardinality(closed_set) >= 3
    /\ \E i \in 1 .. Len(neighbors) :
          neighbors[i] \in closed_set /\ neighbors[i] # current

----------------------------------------------------------------------------
Discovered == open_set \cup closed_set

RECURSIVE ReachesRoot(_, _, _, _)
\* following cf from cur ends at root, the position without an entry, and
\* meets no position of seen nor any position twice
ReachesRoot(cf, cur, root, seen) ==
    IF cur \in seen THEN FALSE
    ELSE IF cur \notin DOMAIN cf THEN cur = root
    ELSE ReachesRoot(cf, cf[cur], root, seen \cup {cur})

\* C16.  came_from is a tree rooted at start: start has no entry, every other
\* discovered position (in open_set or closed_set) has one, no other position
\* has one, and following came_from from a discovered position reaches start
\* without meeting a position twice; so reconstruct_path ends inside astar
\* and the path it returns begins with start.
C16_CameFromTree ==
    /\ start \notin DOMAIN came_from
    /\ DOMAIN came_from = Discovered \ {start}
    /\ \A p \in Discovered : ReachesRoot(came_from, p, start, {})
    /\ (Returned /\ result.some) => result.path[1] = start

\* a path has been returned while some discovered position is three links
\* from start
C16_Witness ==
    /\ Returned
    /\ result.some
    /\ \E p \in Discovered : Links(came_from, p) >= 3

----------------------------------------------------------------------------
\* C17.  The map lookups are safe: g_score[&current] and g_score[&neighbor]
\* are evaluated only for keys written before, every discovered position
\* having a g_score entry, so astar never panics on a rectangular grid with an
\* in-bounds start.
C17_LookupsSafe ==
    /\ pc # "panic"
    /\ Discovered \subseteq DOMAIN g_score

\* an iteration has looked up g_score[&neighbor] for a neighbor that was in
\* open_set already and has kept its entries
C17_Witness ==
    /\ pc = "loop"
    /\ Len(popped) >= 2
    /\ \E i \in 1 .. Len(neighbors) :
          /\ neighbors[i] \in open_set
          /\ came_from[neighbors[i]] # current

----------------------------------------------------------------------------
\* C18.  The heap mirrors open_set: at the top of every iteration of the loop
\* the positions in open_set_heap are exactly those of open_set, and no
\* position has two entries in the heap.
C18_HeapMirrorsOpenSet ==
    pc = "loop" =>
        /\ PositionsOf(open_set_heap) = open_set
        /\ NoRepeat(HeapPositions)

\* the top of the third iteration or a later one, with two positions open
C18_Witness ==
    /\ pc = "loop"
    /\ Len(popped) >= 2
    /\ Cardinality(open_set) >= 2
    /\ Len(open_set_heap) >= 2

----------------------------------------------------------------------------
\* C19.  Score consistency between pops: g_score of a position with a
\* came_from entry is g_score of its parent plus 1, every f_score entry is
\* g_score plus the heuristic to end, and a returned path has g_score[end] + 1
\* positions.
C19_ScoreConsistency ==
    /\ \A n \in DOMAIN came_from :
          /\ n \in DOMAIN g_score
          /\ came_from[n] \in DOMAIN g_score
          /\ g_score[n] = g_score[came_from[n]] + 1
    /\ \A n \in DOMAIN f_score :
          /\ n \in DOMAIN g_score
          /\ f_score[n] = g_score[n] + Heuristic(heuristic, n, end)
    /\ (Returned /\ result.some) => Len(result.path) = g_score[end] + 1

\* a path of at least four positions has been returned
C19_Witness ==
    /\ Returned
    /\ result.some
    /\ g_score[end] >= 3
    /\ f_score[end] = g_score[end]

----------------------------------------------------------------------------
\* the positions of a returned path
PathPositions ==
    IF Returned /\ result.some
    THEN {result.path[i] : i \in 1 .. Len(result.path)}
    ELSE {}

\* C20.  Discovered positions are valid cells: every position in open_set,
\* closed_set, came_from, g_score or a returned path has 0 <= row < height
\* and 0 <= col < width, and each of them other than start is not solid, for
\* an in-bounds start.
C20_DiscoveredValid ==
    \A p \in Discovered \cup DOMAIN came_from \cup DOMAIN g_score \cup PathPositions :
        /\ InBounds(p, grid)
        /\ p # start => Value(grid, p) # 1

\* a path of at least three positions has been returned from a solid start
C20_Witness ==
    /\ Returned
    /\ result.some
    /\ Value(grid, start) = 1
    /\ Len(result.path) >= 3

====
